---- MODULE Spec2Model ----
(***************************************************************************)
(* Model of backend/generate_graphs.py: main() and the five chart          *)
(* renderers it calls in sequence.                                         *)
(*                                                                         *)
(* The state is the input file (whether it exists, whether it parses, the  *)
(* document it holds), the output directory, main's position, the lines    *)
(* printed, the filesystem operations made, the error that escaped main    *)
(* (if any), and what each renderer computed and drew.                     *)
(*                                                                         *)
(* Numbers: JSON integers are Python ints (exact).  Money amounts and VPIN *)
(* scores are modelled as exact integers (VPIN in hundredths); the         *)
(* improvement percentage is an exact fraction.  Trade volumes carry their *)
(* JSON kind, because sum() over floats rounds after every addition: a     *)
(* float is modelled as a binary float with round-to-nearest-even and a    *)
(* mantissa of MantBits bits (53 in CPython).  sum() is the plain left     *)
(* fold of CPython before 3.12.                                            *)
(***************************************************************************)
EXTENDS Integers, Sequences, FiniteSets, TLC

VARIABLES
  fileExists,  \* os.path.exists(data_path)
  parseOk,     \* whether json.load accepts the file
  document,    \* the document the file holds
  dirExists,   \* whether simulation_results/graphs exists
  data,        \* main's data, once loaded
  pc,          \* main's position: the step it takes next
  stdout,      \* the lines printed
  fsops,       \* the filesystem operations made, in order
  invoked,     \* the renderers called, in order
  error,       \* the error that escaped main ("none": none)
  raisedIn,    \* the function that raised it
  priceFig,    \* what create_price_chart drew
  vpinFig,     \* what create_vpin_chart drew
  pnl,         \* what create_comparison_chart computed
  pie,         \* what create_protection_value_pie computed
  vols         \* what create_trade_distribution_chart computed

vars == <<fileExists, parseOk, document, dirExists, data, pc, stdout, fsops,
          invoked, error, raisedIn, priceFig, vpinFig, pnl, pie, vols>>

(***************************************************************************)
(* Bounds of the model.                                                    *)
(***************************************************************************)
MaxSamples == 3

MaxTrades == 3

(***************************************************************************)
(* Values shared by the operations.                                        *)
(***************************************************************************)
NoneVal == "None"

NoData == [keys |-> {}]

TopLevelKeys ==
  {"config", "priceData", "vpinData", "tradeData", "withoutProtection",
   "withProtection", "comparison"}

Has(d, key) == key \in d.keys

RegimeLabels == {"CORE_SESSION", "PRE_MARKET", "HALTED"}

\* regime_colors.get(label, '#cccccc')
RegimeColor(label) ==
  CASE label = "CORE_SESSION" -> "#27ae60"
    [] label = "SOFT_OPEN"    -> "#f39c12"
    [] label = "PRE_MARKET"   -> "#3498db"
    [] label = "AFTER_HOURS"  -> "#9b59b6"
    [] label = "OVERNIGHT"    -> "#34495e"
    [] label = "WEEKEND"      -> "#95a5a6"
    [] OTHER                  -> "#cccccc"

Max(a, b) == IF a >= b THEN a ELSE b

Min(a, b) == IF a <= b THEN a ELSE b

Abs(x) == IF x < 0 THEN -x ELSE x

(***************************************************************************)
(* create_price_chart: the regime shading loop and the reference line.     *)
(***************************************************************************)
\* One ax.axvspan(timestamps[start_idx], timestamps[i-1], color=...) call.
Span(start_idx, end_idx, label) ==
  [startIndex |-> start_idx, endIndex |-> end_idx, label |-> label,
   color |-> RegimeColor(label)]

\* for i, regime in enumerate(regimes): ... (indices are the source's, from 0)
RECURSIVE ShadeRegimes(_, _, _, _, _)
ShadeRegimes(regimes, i, prev_regime, start_idx, shaded) ==
  IF i >= Len(regimes) THEN shaded
  ELSE LET regime == regimes[i + 1] IN
       IF regime /= prev_regime
       THEN ShadeRegimes(regimes, i + 1, regime, i,
                         IF prev_regime /= NoneVal
                         THEN Append(shaded, Span(start_idx, i - 1, prev_regime))
                         ELSE shaded)
       ELSE ShadeRegimes(regimes, i + 1, prev_regime, start_idx, shaded)

RegimesOf(price_data) == [i \in 1..Len(price_data) |-> price_data[i].regime]

PricesOf(price_data) == [i \in 1..Len(price_data) |-> price_data[i].price]

\* The renderer up to savefig: the error it raises ("none": it goes on to
\* save), the spans shaded and the reference line drawn on its figure.
create_price_chart(d) ==
  IF ~Has(d, "priceData")
  THEN [err |-> "KeyError", spans |-> <<>>, reference |-> <<>>]
  ELSE LET regimes == RegimesOf(d.priceData)
           prices == PricesOf(d.priceData)
           shaded == ShadeRegimes(regimes, 0, NoneVal, 0, <<>>)
       IN IF Len(prices) = 0
          THEN [err |-> "IndexError", spans |-> shaded, reference |-> <<>>]
          ELSE [err |-> "none", spans |-> shaded, reference |-> <<prices[1]>>]

(***************************************************************************)
(* create_vpin_chart: the high-VPIN bands.  Scores are in hundredths.      *)
(***************************************************************************)
VpinHigh == 50

\* The threshold itself counted as a breach.
IsHighVpinInclusive(v) == v >= VpinHigh

IsHighVpin(v) == v > VpinHigh

\* ax.axvspan(timestamps[max(0, i-1)], timestamps[min(len(timestamps)-1, i+1)])
Band(i, n) == [startIndex |-> Max(0, i - 1), endIndex |-> Min(n - 1, i + 1)]

\* for i in range(len(timestamps)): if vpins[i] > 0.5: ...
RECURSIVE HighlightBands(_, _, _)
HighlightBands(vpins, i, highlighted) ==
  IF i >= Len(vpins) THEN highlighted
  ELSE HighlightBands(vpins, i + 1,
                      IF IsHighVpin(vpins[i + 1])
                      THEN Append(highlighted, Band(i, Len(vpins)))
                      ELSE highlighted)

VpinsOf(vpin_data) == [i \in 1..Len(vpin_data) |-> vpin_data[i].vpin]

create_vpin_chart(d) ==
  IF ~Has(d, "vpinData")
  THEN [err |-> "KeyError", bands |-> <<>>, plotted |-> <<>>]
  ELSE LET vpins == VpinsOf(d.vpinData)
       IN [err |-> "none", bands |-> HighlightBands(vpins, 0, <<>>),
           plotted |-> vpins]

(***************************************************************************)
(* create_comparison_chart: the P&L vectors and the net improvement.       *)
(***************************************************************************)
\* The stored loss shown as it is, its minus sign left out.
NegatedForgotten(x) == x

\* -x, the unary minus applied to each stored loss
Negated(x) == 0 - x

WithoutVals(without) ==
  <<without.feesEarned, Negated(without.impermanentLoss),
    Negated(without.adverseSelectionLoss), Negated(without.gapLoss), 0>>

WithVals(with_prot) ==
  <<with_prot.feesEarned, Negated(with_prot.impermanentLoss),
    Negated(with_prot.adverseSelectionLoss), Negated(with_prot.gapLoss),
    with_prot.gapAuctionGains>>

\* The difference taken the wrong way round.
ImprovementReversed(with_prot, without) == without.netPnL - with_prot.netPnL

Improvement(with_prot, without) == with_prot.netPnL - without.netPnL

RECURSIVE GCD(_, _)
GCD(a, b) == IF b = 0 THEN a ELSE GCD(b, a % b)

\* The exact value num/den (den /= 0) in lowest terms with den > 0.
Fraction(num, den) ==
  LET g == GCD(Abs(num), Abs(den))
      s == IF den < 0 THEN -1 ELSE 1
  IN [num |-> s * (num \div g), den |-> s * (den \div g)]

\* (improvement / initialLPBalance) * 100, for a non-zero balance
ImprovementPct(improvement, balance) == Fraction(improvement * 100, balance)

NoPnl ==
  [without_vals |-> <<>>, with_vals |-> <<>>, improvement |-> <<>>,
   improvement_pct |-> <<>>]

create_comparison_chart(d) ==
  IF ~Has(d, "withoutProtection") \/ ~Has(d, "withProtection")
  THEN [err |-> "KeyError", pnl |-> NoPnl]
  ELSE LET without == d.withoutProtection
           with_prot == d.withProtection
           improvement == Improvement(with_prot, without)
           bars == [NoPnl EXCEPT !.without_vals = WithoutVals(without),
                                 !.with_vals = WithVals(with_prot),
                                 !.improvement = <<improvement>>]
       IN IF ~Has(d, "config")
          THEN [err |-> "KeyError", pnl |-> bars]
          ELSE IF d.config.initialLPBalance = 0
          THEN [err |-> "ZeroDivisionError", pnl |-> bars]
          ELSE [err |-> "none",
                pnl |-> [bars EXCEPT !.improvement_pct =
                           <<ImprovementPct(improvement,
                                            d.config.initialLPBalance)>>]]

(***************************************************************************)
(* create_protection_value_pie: clipping and the proportional chart.       *)
(***************************************************************************)
\* The contribution taken without the floor at zero.
Max0Unclipped(x) == x

\* max(0, x)
Max0(x) == IF x > 0 THEN x ELSE 0

ClippedSizes(comp) ==
  <<Max0(comp.feeImprovement), Max0(comp.adverseSelectionReduction),
    Max0(comp.gapProtectionValue)>>

\* if total > 0: ax.pie(sizes, ...)
DrawsPie(total) == total > 0

NoPie == [sizes |-> <<>>, total |-> 0, drawn |-> FALSE]

create_protection_value_pie(d) ==
  IF ~Has(d, "comparison")
  THEN [err |-> "KeyError", pie |-> NoPie]
  ELSE LET sizes == ClippedSizes(d.comparison)
           total == sizes[1] + sizes[2] + sizes[3]
       IN [err |-> "none",
           pie |-> [sizes |-> sizes, total |-> total, drawn |-> DrawsPie(total)]]

(***************************************************************************)
(* create_trade_distribution_chart: the volume sums.                       *)
(*                                                                         *)
(* A number is [kind, v]: a Python int (exact) or a float of value v.      *)
(***************************************************************************)
PyInt(n) == [kind |-> "int", v |-> n]

PyFloat(n) == [kind |-> "float", v |-> n]

\* The width of a float's mantissa in the model (CPython's double has 53).
MantBits == 3

\* The spacing of the floats around n >= 0: the least power of two q with
\* n < q * 2^MantBits.
RECURSIVE Ulp(_, _)
Ulp(n, q) == IF n < q * (2 ^ MantBits) THEN q ELSE Ulp(n, 2 * q)

\* The float nearest to the exact value n >= 0, ties to the even mantissa.
RoundToFloat(n) ==
  LET q == Ulp(n, 1)
      lo == (n \div q) * q
      rem == n - lo
  IN IF 2 * rem < q THEN lo
     ELSE IF 2 * rem > q THEN lo + q
     ELSE IF (lo \div q) % 2 = 0 THEN lo ELSE lo + q

\* a + b: exact on two ints; otherwise both operands are floats (an int is
\* converted first) and the exact sum is rounded to a float.
PyAdd(a, b) ==
  IF a.kind = "int" /\ b.kind = "int"
  THEN PyInt(a.v + b.v)
  ELSE LET fa == IF a.kind = "int" THEN RoundToFloat(a.v) ELSE a.v
           fb == IF b.kind = "int" THEN RoundToFloat(b.v) ELSE b.v
       IN PyFloat(RoundToFloat(fa + fb))

\* sum(xs): result = 0; for x in xs: result = result + x
RECURSIVE PySumFrom(_, _, _)
PySumFrom(xs, i, result) ==
  IF i > Len(xs) THEN result ELSE PySumFrom(xs, i + 1, PyAdd(result, xs[i]))

PySum(xs) == PySumFrom(xs, 1, PyInt(0))

VolumesOf(trades) == [i \in 1..Len(trades) |-> trades[i].volume]

\* sum(t['volume'] for t in trades if t['isInformed'])
InformedVol(trades) == PySum(VolumesOf(SelectSeq(trades, LAMBDA t : t.isInformed)))

\* The retail sum with its filter left out.
RetailVolUnfiltered(trades) == PySum(VolumesOf(trades))

\* sum(t['volume'] for t in trades if not t['isInformed'])
RetailVol(trades) == PySum(VolumesOf(SelectSeq(trades, LAMBDA t : ~t.isInformed)))

\* sum(t['volume'] for t in trades if t['isBuy'])
BuyVol(trades) == PySum(VolumesOf(SelectSeq(trades, LAMBDA t : t.isBuy)))

\* sum(t['volume'] for t in trades if not t['isBuy'])
SellVol(trades) == PySum(VolumesOf(SelectSeq(trades, LAMBDA t : ~t.isBuy)))

NoVols ==
  [informed_vol |-> PyInt(0), retail_vol |-> PyInt(0), buy_vol |-> PyInt(0),
   sell_vol |-> PyInt(0), computed |-> FALSE]

\* ax.pie(sizes): matplotlib divides by sum(sizes); with a sum of zero the
\* wedges are NaN, which a build either draws as nothing or rejects with a
\* ValueError.
PieOutcomes(sizes) ==
  IF PySum(sizes).v = 0 THEN {"none", "ValueError"} ELSE {"none"}

\* The renderer up to savefig, for the outcome `drawn` of its first pie.
create_trade_distribution_chart(d, drawn) ==
  IF ~Has(d, "tradeData")
  THEN [err |-> "KeyError", vols |-> NoVols]
  ELSE LET trades == d.tradeData
           informed_vol == InformedVol(trades)
           retail_vol == RetailVol(trades)
       IN IF drawn /= "none"
          THEN [err |-> drawn,
                vols |-> [NoVols EXCEPT !.informed_vol = informed_vol,
                                        !.retail_vol = retail_vol]]
          ELSE [err |-> "none",
                vols |-> [informed_vol |-> informed_vol,
                          retail_vol |-> retail_vol,
                          buy_vol |-> BuyVol(trades),
                          sell_vol |-> SellVol(trades),
                          computed |-> TRUE]]

(***************************************************************************)
(* main: the lines it prints and the order of its steps.                   *)
(***************************************************************************)
DataPath == "simulation_results/simulation_data.json"

OutputDir == "simulation_results/graphs"

Banner == "StockShield Simulation Graph Generator"

Rule == "=================================================="

NotFoundLine == "Data file not found: simulation_results/simulation_data.json"

RemedyLine == "   Run the simulation first: npx ts-node src/yellow/e2e-simulation.ts"

LoadingLine == "Loading: simulation_results/simulation_data.json"

ConfigLine == "   Config: days, initial"

GeneratingLine == "Generating charts..."

SavedLine == "All charts saved to: simulation_results/graphs"

\* print('Created: <artifact>')
Created(artifact) ==
  CASE artifact = "price_chart.png" -> "Created: price_chart.png"
    [] artifact = "vpin_chart.png" -> "Created: vpin_chart.png"
    [] artifact = "comparison_chart.png" -> "Created: comparison_chart.png"
    [] artifact = "protection_value_pie.png" -> "Created: protection_value_pie.png"
    [] artifact = "trade_distribution.png" -> "Created: trade_distribution.png"

Renderers ==
  <<"create_price_chart", "create_vpin_chart", "create_comparison_chart",
    "create_protection_value_pie", "create_trade_distribution_chart">>

ArtifactOf(renderer) ==
  CASE renderer = "create_price_chart" -> "price_chart.png"
    [] renderer = "create_vpin_chart" -> "vpin_chart.png"
    [] renderer = "create_comparison_chart" -> "comparison_chart.png"
    [] renderer = "create_protection_value_pie" -> "protection_value_pie.png"
    [] renderer = "create_trade_distribution_chart" -> "trade_distribution.png"

\* The step of main that follows the call of `renderer`.
StepAfter(renderer) ==
  LET k == CHOOSE i \in 1..Len(Renderers) : Renderers[i] = renderer
  IN IF k < Len(Renderers) THEN Renderers[k + 1] ELSE "summary"

\* os.makedirs without exist_ok.
MakedirsErrorNoExistOk(exists) == IF exists THEN "FileExistsError" ELSE "none"

\* os.makedirs(output_dir, exist_ok=True): the error it raises
MakedirsError(exists) == "none"

\* A renderer's end: plt.savefig and the created line, or the error escaping
\* through main.
Finish(renderer, err) ==
  /\ invoked' = Append(invoked, renderer)
  /\ IF err = "none"
     THEN /\ fsops' = Append(fsops, ArtifactOf(renderer))
          /\ stdout' = Append(stdout, Created(ArtifactOf(renderer)))
          /\ pc' = StepAfter(renderer)
          /\ UNCHANGED <<error, raisedIn>>
     ELSE /\ error' = err
          /\ raisedIn' = renderer
          /\ pc' = "raised"
          /\ UNCHANGED <<fsops, stdout>>
  /\ UNCHANGED <<fileExists, parseOk, document, dirExists, data>>

\* The missing-file branch without its return: main goes on to load_data.
MainNotFoundFallsThrough ==
  /\ pc = "main"
  /\ ~fileExists
  /\ stdout' = stdout \o <<Banner, "", Rule, NotFoundLine, RemedyLine, "", LoadingLine>>
  /\ error' = "FileNotFoundError"
  /\ raisedIn' = "load_data"
  /\ pc' = "raised"
  /\ UNCHANGED <<fileExists, parseOk, document, dirExists, data, fsops, invoked,
                 priceFig, vpinFig, pnl, pie, vols>>

\* main, lines 298-308: the banner and the missing-file return.
MainNotFound ==
  /\ pc = "main"
  /\ ~fileExists
  /\ stdout' = stdout \o <<Banner, "", Rule, NotFoundLine, RemedyLine>>
  /\ pc' = "returned"
  /\ UNCHANGED <<fileExists, parseOk, document, dirExists, data, fsops, invoked,
                 error, raisedIn, priceFig, vpinFig, pnl, pie, vols>>

\* main, lines 298-313: the banner, load_data and the config line.
MainLoad ==
  /\ pc = "main"
  /\ fileExists
  /\ LET printed == stdout \o <<Banner, "", Rule, "", LoadingLine>>
     IN IF ~parseOk
        THEN /\ stdout' = printed
             /\ error' = "JSONDecodeError"
             /\ raisedIn' = "load_data"
             /\ pc' = "raised"
             /\ UNCHANGED data
        ELSE IF ~Has(document, "config")
        THEN /\ stdout' = printed
             /\ data' = document
             /\ error' = "KeyError"
             /\ raisedIn' = "main"
             /\ pc' = "raised"
        ELSE /\ stdout' = Append(printed, ConfigLine)
             /\ data' = document
             /\ pc' = "makedirs"
             /\ UNCHANGED <<error, raisedIn>>
  /\ UNCHANGED <<fileExists, parseOk, document, dirExists, fsops, invoked,
                 priceFig, vpinFig, pnl, pie, vols>>

\* main, lines 315-320: the output directory and the charts' heading.
MainMakedirs ==
  /\ pc = "makedirs"
  /\ LET err == MakedirsError(dirExists)
     IN IF err = "none"
        THEN /\ dirExists' = TRUE
             /\ fsops' = Append(fsops, "makedirs")
             /\ stdout' = stdout \o <<"", GeneratingLine>>
             /\ pc' = Renderers[1]
             /\ UNCHANGED <<error, raisedIn>>
        ELSE /\ error' = err
             /\ raisedIn' = "makedirs"
             /\ pc' = "raised"
             /\ UNCHANGED <<dirExists, fsops, stdout>>
  /\ UNCHANGED <<fileExists, parseOk, document, data, invoked, priceFig,
                 vpinFig, pnl, pie, vols>>

CreatePriceChart ==
  /\ pc = "create_price_chart"
  /\ LET r == create_price_chart(data)
     IN /\ priceFig' = [spans |-> r.spans, reference |-> r.reference]
        /\ Finish("create_price_chart", r.err)
  /\ UNCHANGED <<vpinFig, pnl, pie, vols>>

CreateVpinChart ==
  /\ pc = "create_vpin_chart"
  /\ LET r == create_vpin_chart(data)
     IN /\ vpinFig' = [bands |-> r.bands, plotted |-> r.plotted]
        /\ Finish("create_vpin_chart", r.err)
  /\ UNCHANGED <<priceFig, pnl, pie, vols>>

CreateComparisonChart ==
  /\ pc = "create_comparison_chart"
  /\ LET r == create_comparison_chart(data)
     IN /\ pnl' = r.pnl
        /\ Finish("create_comparison_chart", r.err)
  /\ UNCHANGED <<priceFig, vpinFig, pie, vols>>

CreateProtectionValuePie ==
  /\ pc = "create_protection_value_pie"
  /\ LET r == create_protection_value_pie(data)
     IN /\ pie' = r.pie
        /\ Finish("create_protection_value_pie", r.err)
  /\ UNCHANGED <<priceFig, vpinFig, pnl, vols>>

CreateTradeDistributionChart ==
  /\ pc = "create_trade_distribution_chart"
  /\ \E drawn \in IF Has(data, "tradeData")
                  THEN PieOutcomes(<<InformedVol(data.tradeData),
                                     RetailVol(data.tradeData)>>)
                  ELSE {"none"} :
       LET r == create_trade_distribution_chart(data, drawn)
       IN /\ vols' = r.vols
          /\ Finish("create_trade_distribution_chart", r.err)
  /\ UNCHANGED <<priceFig, vpinFig, pnl, pie>>

\* main, lines 327-329: the closing lines.
MainSummary ==
  /\ pc = "summary"
  /\ stdout' = stdout \o <<"", Rule, SavedLine, Rule, "">>
  /\ pc' = "returned"
  /\ UNCHANGED <<fileExists, parseOk, document, dirExists, data, fsops, invoked,
                 error, raisedIn, priceFig, vpinFig, pnl, pie, vols>>

(***************************************************************************)
(* The input documents.  Timestamps are left out: they only place the      *)
(* samples on the time axis, and every interval is read by its indices.    *)
(***************************************************************************)
DefaultDoc ==
  [keys |-> TopLevelKeys,
   config |-> [simulationDays |-> 7, initialLPBalance |-> 100000],
   priceData |-> <<[price |-> 150, regime |-> "CORE_SESSION"]>>,
   vpinData |-> <<[vpin |-> 20]>>,
   tradeData |-> <<[volume |-> PyInt(2), isInformed |-> TRUE, isBuy |-> TRUE]>>,
   withoutProtection |->
     [feesEarned |-> 3, impermanentLoss |-> 2, adverseSelectionLoss |-> 2,
      gapLoss |-> 2, gapAuctionGains |-> 0, netPnL |-> -1000],
   withProtection |->
     [feesEarned |-> 3, impermanentLoss |-> 2, adverseSelectionLoss |-> 2,
      gapLoss |-> 0, gapAuctionGains |-> 4, netPnL |-> 500],
   comparison |->
     [feeImprovement |-> 3, adverseSelectionReduction |-> 0,
      gapProtectionValue |-> -2]]

SeqsUpTo(S, n) == UNION {[1..k -> S] : k \in 0..n}

PriceDocs ==
  {[DefaultDoc EXCEPT !.priceData =
      [i \in 1..Len(r) |-> [price |-> 150 + i, regime |-> r[i]]]] :
   r \in SeqsUpTo(RegimeLabels, MaxSamples)}

VpinScores == {20, 50, 60}

VpinExample == <<10, 20, 60, 30, 80, 20>>

VpinDocs ==
  {[DefaultDoc EXCEPT !.vpinData = [i \in 1..Len(v) |-> [vpin |-> v[i]]]] :
   v \in SeqsUpTo(VpinScores, MaxSamples) \cup {VpinExample}}

Scenarios ==
  [feesEarned : {3}, impermanentLoss : {-1, 0, 2}, adverseSelectionLoss : {-1, 2},
   gapLoss : {0, 2}, gapAuctionGains : {0, 4}, netPnL : {500}]

PnlDocs ==
  {[DefaultDoc EXCEPT !.withoutProtection = wo, !.withProtection = wi] :
   wo \in Scenarios, wi \in Scenarios}

NetValues == {-1000, 0, 500}

Balances == {0, 1000, 100000}

NetDocs ==
  {[DefaultDoc EXCEPT !.withoutProtection.netPnL = wo,
                      !.withProtection.netPnL = wi,
                      !.config.initialLPBalance = b] :
   wo \in NetValues, wi \in NetValues, b \in Balances}

Contributions == {-2, 0, 3}

CompDocs ==
  {[DefaultDoc EXCEPT !.comparison =
      [feeImprovement |-> f, adverseSelectionReduction |-> a,
       gapProtectionValue |-> g]] :
   f \in Contributions, a \in Contributions, g \in Contributions}

IntVolumes == {PyInt(0), PyInt(2)}

FloatVolumes == {PyFloat(3), PyFloat(6)}

TradesOver(volumes) ==
  SeqsUpTo([volume : volumes, isInformed : BOOLEAN, isBuy : BOOLEAN], MaxTrades)

TradeDocs ==
  {[DefaultDoc EXCEPT !.tradeData = t] :
   t \in TradesOver(IntVolumes) \cup TradesOver(FloatVolumes)}

MissingDocs ==
  {[DefaultDoc EXCEPT !.keys = TopLevelKeys \ {k}] : k \in TopLevelKeys}

Docs ==
  PriceDocs \cup VpinDocs \cup PnlDocs \cup NetDocs \cup CompDocs \cup TradeDocs
    \cup MissingDocs

Init ==
  /\ \/ /\ fileExists \in BOOLEAN
        /\ parseOk \in BOOLEAN
        /\ document = DefaultDoc
     \/ /\ fileExists = TRUE
        /\ parseOk = TRUE
        /\ document \in Docs
  /\ dirExists \in BOOLEAN
  /\ data = NoData
  /\ pc = "main"
  /\ stdout = <<>>
  /\ fsops = <<>>
  /\ invoked = <<>>
  /\ error = "none"
  /\ raisedIn = "none"
  /\ priceFig = [spans |-> <<>>, reference |-> <<>>]
  /\ vpinFig = [bands |-> <<>>, plotted |-> <<>>]
  /\ pnl = NoPnl
  /\ pie = NoPie
  /\ vols = NoVols

Next ==
  \/ MainNotFound
  \/ MainLoad
  \/ MainMakedirs
  \/ CreatePriceChart
  \/ CreateVpinChart
  \/ CreateComparisonChart
  \/ CreateProtectionValuePie
  \/ CreateTradeDistributionChart
  \/ MainSummary

Spec == Init /\ [][Next]_vars

(***************************************************************************)
(* Vocabulary of the properties.                                           *)
(***************************************************************************)
Range(f) == {f[i] : i \in DOMAIN f}

Called(renderer) == renderer \in Range(invoked)

Wrote(artifact) == artifact \in Range(fsops)

Terminated == pc \in {"returned", "raised"}

\* The artifacts written, in order.
Artifacts == SelectSeq(fsops, LAMBDA op : op /= "makedirs")

AllArtifacts == [i \in 1..Len(Renderers) |-> ArtifactOf(Renderers[i])]

\* The created lines printed, in order.
CreatedLines ==
  SelectSeq(stdout, LAMBDA line : line \in {Created(a) : a \in Range(AllArtifacts)})

RenderersSet == Range(Renderers)

(***************************************************************************)
(* C1.  The intervals shaded by create_price_chart are the maximal runs of *)
(* equal regime labels: they cover every index of [0, N) exactly once,     *)
(* their number is the number of label changes plus one (zero for N = 0),  *)
(* and a sequence of one repeated label yields one interval over the whole *)
(* range.                                                                  *)
(***************************************************************************)
LabelChanges(regimes) ==
  Cardinality({i \in 1..(Len(regimes) - 1) : regimes[i] /= regimes[i + 1]})

IsRunPartition(shaded, regimes) ==
  LET n == Len(regimes) IN
  /\ \A i \in 0..(n - 1) :
       Cardinality({k \in DOMAIN shaded :
                      shaded[k].startIndex <= i /\ i <= shaded[k].endIndex}) = 1
  /\ \A k \in DOMAIN shaded :
       /\ 0 <= shaded[k].startIndex
       /\ shaded[k].startIndex <= shaded[k].endIndex
       /\ shaded[k].endIndex <= n - 1
       /\ \A i \in shaded[k].startIndex..shaded[k].endIndex :
            regimes[i + 1] = shaded[k].label
       /\ k > 1 => /\ shaded[k].startIndex = shaded[k - 1].endIndex + 1
                   /\ shaded[k].label /= shaded[k - 1].label
  /\ Len(shaded) = IF n = 0 THEN 0 ELSE LabelChanges(regimes) + 1
  /\ (n > 0 /\ \A i \in 1..n : regimes[i] = regimes[1]) =>
       /\ Len(shaded) = 1
       /\ shaded[1].startIndex = 0
       /\ shaded[1].endIndex = n - 1

\* C1: after create_price_chart, the shaded intervals are the maximal runs of
\* the regime sequence (a partition of [0, N), changes + 1 of them).
C1_ShadedRunsPartition ==
  (Called("create_price_chart") /\ Has(data, "priceData")) =>
    IsRunPartition(priceFig.spans, RegimesOf(data.priceData))

(***************************************************************************)
(* C2.  With the input file missing, main prints its diagnostic, writes    *)
(* nothing, creates no directory, calls no renderer and returns normally.  *)
(***************************************************************************)
\* The lines after the banner and its rule.
DiagnosticLines ==
  SelectSeq(stdout, LAMBDA line : line \notin {Banner, "", Rule})

NamesPath(line) == line = NotFoundLine

NamesRemedy(line) == line = RemedyLine

NothingProduced ==
  /\ fsops = <<>>
  /\ invoked = <<>>
  /\ error = "none"
  /\ pc \in {"main", "returned"}

\* C2, as claimed: with the file missing main prints exactly one diagnostic
\* line, naming the path and the remedy, and produces nothing.
C2_OneDiagnosticLine ==
  (~fileExists /\ pc = "returned") =>
    /\ Len(DiagnosticLines) = 1
    /\ NamesPath(DiagnosticLines[1])
    /\ NamesRemedy(DiagnosticLines[1])
    /\ NothingProduced

\* C2, as amended: with the file missing main prints two diagnostic lines,
\* the first naming the path and the second the remedy; nothing is produced
\* and no error escapes main.
C2_TwoDiagnosticLines ==
  ~fileExists =>
    /\ NothingProduced
    /\ pc = "returned" =>
         /\ Len(DiagnosticLines) = 2
         /\ NamesPath(DiagnosticLines[1])
         /\ NamesRemedy(DiagnosticLines[2])

C2_Witness == ~fileExists /\ pc = "returned" /\ Len(stdout) > 0

(***************************************************************************)
(* C3.  The P&L vectors of create_comparison_chart: the three losses are   *)
(* shown as negative magnitudes, fees and with-protection gap-auction      *)
(* gains as stored, and gap-auction gains as 0 without protection.         *)
(***************************************************************************)
PnlDrawn == Called("create_comparison_chart") /\ pnl.without_vals /= <<>>

StoredLosses(scenario) ==
  <<scenario.impermanentLoss, scenario.adverseSelectionLoss, scenario.gapLoss>>

FeesAndGainsAsStored ==
  /\ pnl.without_vals[1] = data.withoutProtection.feesEarned
  /\ pnl.with_vals[1] = data.withProtection.feesEarned
  /\ pnl.with_vals[5] = data.withProtection.gapAuctionGains
  /\ pnl.without_vals[5] = 0

\* C3, as claimed: whatever the stored sign, each loss is shown as a value
\* <= 0; fees and gains are shown as stored.
C3_LossesNeverPositive ==
  PnlDrawn =>
    /\ \A k \in 1..3 : pnl.without_vals[k + 1] <= 0 /\ pnl.with_vals[k + 1] <= 0
    /\ FeesAndGainsAsStored

\* C3, as amended: each loss is shown as the negation of its stored value,
\* which is <= 0 exactly when the stored value is >= 0; fees and gains are
\* shown as stored.
C3_LossesNegated ==
  PnlDrawn =>
    /\ \A k \in 1..3 :
         /\ pnl.without_vals[k + 1] + StoredLosses(data.withoutProtection)[k] = 0
         /\ pnl.with_vals[k + 1] + StoredLosses(data.withProtection)[k] = 0
         /\ pnl.without_vals[k + 1] <= 0
              <=> StoredLosses(data.withoutProtection)[k] >= 0
         /\ pnl.with_vals[k + 1] <= 0
              <=> StoredLosses(data.withProtection)[k] >= 0
    /\ FeesAndGainsAsStored

C3_Witness ==
  /\ PnlDrawn
  /\ data.withoutProtection.impermanentLoss < 0
  /\ pnl.without_vals[2] > 0
  /\ data.withProtection.gapLoss > 0
  /\ pnl.with_vals[4] < 0

(***************************************************************************)
(* C4.  With config.initialLPBalance zero, create_comparison_chart raises  *)
(* no error and still produces its artifact and its created line.          *)
(***************************************************************************)
\* C4: a zero initialLPBalance makes create_comparison_chart raise nothing and
\* still write comparison_chart.png and print its created line.
C4_ZeroBalanceGraceful ==
  (/\ Called("create_comparison_chart")
   /\ Has(data, "config")
   /\ data.config.initialLPBalance = 0) =>
    /\ raisedIn /= "create_comparison_chart"
    /\ Wrote("comparison_chart.png")
    /\ Created("comparison_chart.png") \in Range(stdout)

(***************************************************************************)
(* C5.  On an empty priceData (create_price_chart) or an empty vpinData    *)
(* (create_vpin_chart) the renderer either writes a degenerate chart with  *)
(* no interval or band, or raises a missing-field error (KeyError); it     *)
(* ends with no other error and draws no value that is not in the input.   *)
(***************************************************************************)
DegenerateOrMissingField(renderer, drawn) ==
  \/ /\ Wrote(ArtifactOf(renderer))
     /\ drawn = <<>>
  \/ /\ raisedIn = renderer
     /\ error = "KeyError"

\* C5: on an empty priceData or vpinData the renderer writes a chart with no
\* interval or band, or raises KeyError, and draws nothing of its own.
C5_EmptyInputDegenerate ==
  /\ (/\ Called("create_price_chart")
      /\ Has(data, "priceData")
      /\ data.priceData = <<>>) =>
       /\ DegenerateOrMissingField("create_price_chart", priceFig.spans)
       /\ priceFig.reference = <<>>
  /\ (/\ Called("create_vpin_chart")
      /\ Has(data, "vpinData")
      /\ data.vpinData = <<>>) =>
       /\ DegenerateOrMissingField("create_vpin_chart", vpinFig.bands)
       /\ vpinFig.plotted = <<>>

(***************************************************************************)
(* C6.  A run of main on an existing input file: the output directory is   *)
(* created before any artifact is written, the renderers run in the fixed  *)
(* order, each writes one file and then prints one created line, and the   *)
(* run ends with all five artifacts and lines or halts at the first        *)
(* renderer error with only the earlier artifacts, no later renderer       *)
(* called and the error propagated.                                        *)
(***************************************************************************)
Prefix(s, n) == [i \in 1..n |-> s[i]]

\* The directory is made first, then the artifacts in the renderers' order,
\* one created line for each.
OrderedOutputs ==
  /\ fsops /= <<>> => fsops[1] = "makedirs"
  /\ Len(Artifacts) = Len(fsops) - (IF fsops = <<>> THEN 0 ELSE 1)
  /\ Len(Artifacts) <= Len(AllArtifacts)
  /\ Artifacts = Prefix(AllArtifacts, Len(Artifacts))
  /\ CreatedLines = [i \in 1..Len(Artifacts) |-> Created(Artifacts[i])]
  /\ Len(invoked) <= Len(Renderers)
  /\ invoked = Prefix(Renderers, Len(invoked))

CompletedRun ==
  /\ pc = "returned"
  /\ error = "none"
  /\ Artifacts = AllArtifacts
  /\ Len(CreatedLines) = 5
  /\ invoked = Renderers

HaltedAtRenderer ==
  /\ pc = "raised"
  /\ error /= "none"
  /\ raisedIn \in RenderersSet
  /\ invoked[Len(invoked)] = raisedIn
  /\ Len(Artifacts) = Len(invoked) - 1
  /\ ~Wrote(ArtifactOf(raisedIn))

DirectoryMade == dirExists /\ Wrote("makedirs")

\* C6, as claimed: every run where the input file exists makes the directory
\* first, writes the artifacts in order with their created lines, and ends
\* complete or halted at the first renderer error.
C6_ExistingFileRun ==
  fileExists =>
    /\ OrderedOutputs
    /\ Terminated => (DirectoryMade /\ (CompletedRun \/ HaltedAtRenderer))

Loadable == fileExists /\ parseOk /\ Has(document, "config")

\* C6, as amended: the same of every run where load_data and the config line
\* succeed; a run where one of them raises halts before the directory is
\* made, with nothing written and no renderer called.
C6_LoadedRun ==
  /\ fileExists => OrderedOutputs
  /\ (Loadable /\ Terminated) =>
       (DirectoryMade /\ (CompletedRun \/ HaltedAtRenderer))
  /\ (fileExists /\ ~Loadable /\ Terminated) =>
       /\ pc = "raised"
       /\ raisedIn \in {"load_data", "main"}
       /\ error \in {"JSONDecodeError", "KeyError"}
       /\ fsops = <<>>
       /\ invoked = <<>>

C6_Witness ==
  /\ Loadable
  /\ pc = "raised"
  /\ raisedIn = "create_comparison_chart"
  /\ Artifacts = <<"price_chart.png", "vpin_chart.png">>

(***************************************************************************)
(* C7.  The shares of create_protection_value_pie are non-negative and sum *)
(* to the positive parts of the three contributions; with no positive      *)
(* contribution no pie is drawn and the artifact is still written.         *)
(***************************************************************************)
PositivePart(x) == (x + Abs(x)) \div 2

\* C7: the pie's shares are >= 0 and sum to the positive parts of the inputs;
\* with no positive input no pie is drawn and the artifact is still written.
C7_ClippedShares ==
  (Called("create_protection_value_pie") /\ Has(data, "comparison")) =>
    LET comp == data.comparison IN
    /\ Len(pie.sizes) = 3
    /\ \A k \in 1..3 : pie.sizes[k] >= 0
    /\ pie.sizes[1] + pie.sizes[2] + pie.sizes[3] = pie.total
    /\ pie.total = PositivePart(comp.feeImprovement)
                     + PositivePart(comp.adverseSelectionReduction)
                     + PositivePart(comp.gapProtectionValue)
    /\ (/\ comp.feeImprovement <= 0
        /\ comp.adverseSelectionReduction <= 0
        /\ comp.gapProtectionValue <= 0) =>
         /\ pie.total = 0
         /\ ~pie.drawn
    /\ raisedIn /= "create_protection_value_pie"
    /\ Wrote("protection_value_pie.png")

C7_Witness ==
  /\ Called("create_protection_value_pie")
  /\ data.comparison.feeImprovement < 0
  /\ data.comparison.adverseSelectionReduction < 0
  /\ data.comparison.gapProtectionValue < 0
  /\ ~pie.drawn
  /\ Wrote("protection_value_pie.png")

(***************************************************************************)
(* C8.  create_vpin_chart highlights one band per index i whose score is   *)
(* strictly above 0.50 and no other, spanning max(0, i-1)..min(N-1, i+1);  *)
(* for 0.1, 0.2, 0.6, 0.3, 0.8, 0.2 the breaches are 2 and 4 and the bands *)
(* 1..3 and 3..5.                                                          *)
(***************************************************************************)
Breaches(vpins) == {i \in 0..(Len(vpins) - 1) : vpins[i + 1] > 50}

\* The k-th breach index in increasing order.
KthBreach(vpins, k) ==
  CHOOSE i \in Breaches(vpins) :
    Cardinality({j \in Breaches(vpins) : j < i}) = k - 1

\* C8: one band per score strictly above 0.50, in index order, spanning
\* max(0, i-1)..min(N-1, i+1); the documented example gives 1..3 and 3..5.
C8_HighBands ==
  (Called("create_vpin_chart") /\ Has(data, "vpinData")) =>
    LET vpins == VpinsOf(data.vpinData)
        n == Len(vpins)
    IN /\ Len(vpinFig.bands) = Cardinality(Breaches(vpins))
       /\ \A k \in 1..Len(vpinFig.bands) :
            LET i == KthBreach(vpins, k) IN
            /\ vpinFig.bands[k].startIndex = (IF i = 0 THEN 0 ELSE i - 1)
            /\ vpinFig.bands[k].endIndex = (IF i = n - 1 THEN n - 1 ELSE i + 1)
       /\ vpins = <<10, 20, 60, 30, 80, 20>> =>
            /\ Breaches(vpins) = {2, 4}
            /\ vpinFig.bands = <<[startIndex |-> 1, endIndex |-> 3],
                                 [startIndex |-> 3, endIndex |-> 5]>>

C8_Witness ==
  /\ Wrote("vpin_chart.png")
  /\ VpinsOf(data.vpinData) = <<10, 20, 60, 30, 80, 20>>
  /\ Len(vpinFig.bands) = 2

(***************************************************************************)
(* C9.  The volume splits of create_trade_distribution_chart agree with    *)
(* each other and with the grand total: informed + retail = buy + sell =   *)
(* the sum of volume over all trades, all zero for no trades.              *)
(***************************************************************************)
\* C9, as claimed: informed + retail = buy + sell = the sum over all trades,
\* exactly, for every trade set.
C9_SplitsAgreeExactly ==
  vols.computed =>
    /\ PyAdd(vols.informed_vol, vols.retail_vol).v
         = PyAdd(vols.buy_vol, vols.sell_vol).v
    /\ PyAdd(vols.informed_vol, vols.retail_vol).v
         = PySum(VolumesOf(data.tradeData)).v

RECURSIVE ExactTotal(_)
ExactTotal(trades) ==
  IF trades = <<>> THEN 0 ELSE Head(trades).volume.v + ExactTotal(Tail(trades))

IntegerVolumes(trades) == \A i \in DOMAIN trades : trades[i].volume.kind = "int"

\* C9, as amended: informed + retail = buy + sell = the sum over all trades,
\* exactly, for every trade set whose volumes are integers.
C9_IntegerSplitsAgree ==
  (vols.computed /\ IntegerVolumes(data.tradeData)) =>
    /\ vols.informed_vol.v + vols.retail_vol.v = ExactTotal(data.tradeData)
    /\ vols.buy_vol.v + vols.sell_vol.v = ExactTotal(data.tradeData)
    /\ PySum(VolumesOf(data.tradeData)).v = ExactTotal(data.tradeData)
    /\ data.tradeData = <<>> =>
         /\ vols.informed_vol.v = 0 /\ vols.retail_vol.v = 0
         /\ vols.buy_vol.v = 0 /\ vols.sell_vol.v = 0

C9_Witness ==
  /\ vols.computed
  /\ IntegerVolumes(data.tradeData)
  /\ vols.informed_vol.v > 0
  /\ vols.retail_vol.v > 0
  /\ vols.buy_vol.v > vols.informed_vol.v
  /\ vols.sell_vol.v = 0

(***************************************************************************)
(* C10.  create_comparison_chart computes improvement = with.netPnL -      *)
(* without.netPnL and improvementPct = improvement / initialLPBalance *    *)
(* 100; for -1000, 500 and 100000 these are 1500 and 1.5.                  *)
(***************************************************************************)
\* C10: improvement = with.netPnL - without.netPnL and improvementPct =
\* improvement / initialLPBalance * 100 for a non-zero balance; the documented
\* example gives 1500 and 1.5.
C10_NetImprovement ==
  (PnlDrawn /\ data.config.initialLPBalance /= 0) =>
    LET wo == data.withoutProtection.netPnL
        wi == data.withProtection.netPnL
        balance == data.config.initialLPBalance
    IN /\ Len(pnl.improvement) = 1
       /\ Len(pnl.improvement_pct) = 1
       /\ pnl.improvement[1] + wo = wi
       /\ pnl.improvement_pct[1].den > 0
       /\ pnl.improvement_pct[1].num * balance
            = (wi - wo) * 100 * pnl.improvement_pct[1].den
       /\ (wo = -1000 /\ wi = 500 /\ balance = 100000) =>
            /\ pnl.improvement[1] = 1500
            /\ pnl.improvement_pct[1] = [num |-> 3, den |-> 2]

C10_Witness ==
  /\ PnlDrawn
  /\ data.withoutProtection.netPnL = -1000
  /\ data.withProtection.netPnL = 500
  /\ data.config.initialLPBalance = 100000
  /\ pnl.improvement = <<1500>>
  /\ Wrote("comparison_chart.png")

====
